---- MODULE Spec2Model ----
(***************************************************************************)
(* Host/path routing of pandora-web-server: the segment trie and its       *)
(* builder (module-utils/src/trie.rs) and the virtual hosts dispatcher     *)
(* built on it (virtual-hosts-module/src/handler.rs).                      *)
(*                                                                         *)
(* Bytes are integers (47 is '/', 97 'a', 98 'b', 63 '?'); a label, a path *)
(* or a key segment is a sequence of bytes.  Rust indices are kept 0-based *)
(* in the modelled data and shifted by one where a TLA+ sequence is read.  *)
(* Option<T> is a sequence of length at most one.                          *)
(***************************************************************************)
EXTENDS Integers, Sequences, FiniteSets, TLC

VARIABLES
    builder,       \* the TrieBuilder
    pushed,        \* the pushes made so far, each a label and a value
    pushRet,       \* what the latest push returned
    trie,          \* the Trie once built
    lookupKey,     \* the key of the lookup made
    lookupResult,  \* how that lookup ended
    lcpArgs,       \* two labels given to common_prefix_length
    lcpResult,     \* the length it returned
    conf,          \* the VirtualHostsConf
    yielded,       \* the order in which the configuration's maps were iterated
    dispatcher,    \* the VirtualHostsHandler once built, or the error
    request,       \* the session of the request handled
    outcome,       \* the handler invoked, the URI it saw and the result
    rules,         \* a MatchRules
    asked,         \* the host, path and force_prefix it was asked about
    answer,        \* the PathMatchResult it gave
    tasks          \* the requests in flight, each with its own session

trieVars == <<builder, pushed, pushRet, trie, lookupKey, lookupResult, lcpArgs, lcpResult>>
vhVars == <<conf, yielded, dispatcher, request, outcome>>
mrVars == <<rules, asked, answer>>
vars == <<builder, pushed, pushRet, trie, lookupKey, lookupResult, lcpArgs, lcpResult,
          conf, yielded, dispatcher, request, outcome, rules, asked, answer, tasks>>

None == <<>>
Some(x) == <<x>>
IsSome(o) == Len(o) > 0
Unwrap(o) == o[1]

Min(x, y) == IF x < y THEN x ELSE y

\* `let x = value;`: value is computed once and handed to body.
Let(value, body(_)) == CHOOSE r \in {body(x) : x \in {value}} : TRUE

\* Rust's slice a[from..to] with 0-based, end-exclusive indices.
Slice(s, from, to) == SubSeq(s, from + 1, to)

(***************************************************************************)
(* Bounds of the model.                                                    *)
(***************************************************************************)
MaxSegs == 2
MaxPushes == 3
MaxKeySegs == 3

\* Character to separate labels
SEPARATOR == 47

\* The segments labels and keys are made of: "a" and "ab", so that one
\* segment is a proper byte prefix of another.
Segments == {<<97>>, <<97, 98>>}

RECURSIVE SegSeqs(_)
SegSeqs(n) ==
    IF n = 0 THEN {<<>>}
    ELSE LET shorter == SegSeqs(n - 1)
         IN shorter \cup {Append(s, x) : s \in {t \in shorter : Len(t) = n - 1}, x \in Segments}

\* A normalized label: segments joined by one separator, none at either end.
RECURSIVE Join(_)
Join(segs) ==
    IF Len(segs) = 0 THEN <<>>
    ELSE IF Len(segs) = 1 THEN segs[1]
    ELSE segs[1] \o <<SEPARATOR>> \o Join(Tail(segs))

Labels == {Join(s) : s \in SegSeqs(MaxSegs)}
Keys == SegSeqs(MaxKeySegs)

(***************************************************************************)
(* common_prefix_length                                                    *)
(***************************************************************************)
\* A loop that counts the separator into the length.
RECURSIVE cpl_loop_with_separator(_, _, _, _)
cpl_loop_with_separator(a, b, i, length) ==
    IF i >= Min(Len(a), Len(b)) THEN [ret |-> FALSE, length |-> length]
    ELSE IF a[i + 1] # b[i + 1] THEN [ret |-> TRUE, length |-> length]
    ELSE cpl_loop_with_separator(a, b, i + 1, IF a[i + 1] = SEPARATOR THEN i + 1 ELSE length)

\* The for loop: ret is TRUE when the loop left the function by `return`.
RECURSIVE cpl_loop(_, _, _, _)
cpl_loop(a, b, i, length) ==
    IF i >= Min(Len(a), Len(b)) THEN [ret |-> FALSE, length |-> length]
    ELSE IF a[i + 1] # b[i + 1] THEN [ret |-> TRUE, length |-> length]
    ELSE cpl_loop(a, b, i + 1, IF a[i + 1] = SEPARATOR THEN i ELSE length)

\* A prefix length that takes a byte prefix for a match, whatever follows it.
common_prefix_length_bytes(a, b) ==
    LET r == cpl_loop(a, b, 0, 0)
    IN IF r.ret THEN r.length
       ELSE IF Len(a) <= Len(b) THEN Len(a)
       ELSE IF Len(a) > Len(b) /\ a[Len(b) + 1] = SEPARATOR THEN Len(b)
       ELSE r.length

common_prefix_length(a, b) ==
    LET r == cpl_loop(a, b, 0, 0)
    IN IF r.ret THEN r.length
       ELSE IF Len(a) = Len(b) \/ (Len(a) < Len(b) /\ b[Len(a) + 1] = SEPARATOR)
            THEN Len(a)
       ELSE IF Len(a) > Len(b) /\ a[Len(b) + 1] = SEPARATOR
            THEN Len(b)
       ELSE r.length

(***************************************************************************)
(* TrieBuilder                                                             *)
(***************************************************************************)
BuilderNode(label, children, value) ==
    [label |-> label, children |-> children, value |-> value]

TrieBuilder_new ==
    [nodes |-> 1, labels |-> 0, values |-> 0, root |-> BuilderNode(<<>>, <<>>, None)]

\* A loop that matches a child only when all of its label is matched, so
\* that no child is ever split.
RECURSIVE first_match_whole(_, _, _)
first_match_whole(children, label, i) ==
    IF i > Len(children) THEN 0
    ELSE IF common_prefix_length(children[i].label, label) = Len(children[i].label) THEN i
    ELSE first_match_whole(children, label, i + 1)

\* Index (1-based) of the first child whose label shares a prefix with label,
\* 0 when there is none: the `for ... enumerate()` loop with its `break`.
RECURSIVE first_match(_, _, _)
first_match(children, label, i) ==
    IF i > Len(children) THEN 0
    ELSE IF common_prefix_length(children[i].label, label) > 0 THEN i
    ELSE first_match(children, label, i + 1)

\* A split whose head forgets the node it was split from.
split_node_drops_tail(node, length) ==
    IF length < Len(node.label)
    THEN BuilderNode(Slice(node.label, 0, length), <<>>, None)
    ELSE node

\* A split that moves the node's value up into the head.
split_node_moves_value(node, length) ==
    IF length < Len(node.label)
    THEN BuilderNode(Slice(node.label, 0, length),
                     <<[node EXCEPT !.label = Slice(node.label, length + 1, Len(node.label)),
                                    !.value = None]>>,
                     node.value)
    ELSE node

\* A split that leaves the separator at the end of the head.
split_node_keeps_separator(node, length) ==
    IF length < Len(node.label)
    THEN BuilderNode(Slice(node.label, 0, length + 1),
                     <<[node EXCEPT !.label = Slice(node.label, length + 1, Len(node.label))]>>,
                     None)
    ELSE node

\* The node as the loop body leaves it: split when the match is partial.
split_node(node, length) ==
    IF length < Len(node.label)
    THEN BuilderNode(Slice(node.label, 0, length),
                     <<[node EXCEPT !.label = Slice(node.label, length + 1, Len(node.label))]>>,
                     None)
    ELSE node

\* Returns the subtree as rewritten, the path (child indices) from current to
\* the node the reference points at, the counters and the label left over.
RECURSIVE find_insertion_point(_, _, _, _)
find_insertion_point(current, nodes, labels, label) ==
    LET i == first_match(current.children, label, 1)
    IN IF i = 0
       THEN [node |-> current, path |-> <<>>, nodes |-> nodes, labels |-> labels,
             label |-> label]
       ELSE LET node == current.children[i]
                length == common_prefix_length(node.label, label)
                drained == Slice(label, Min(length + 1, Len(label)), Len(label))
                partial == length < Len(node.label)
            IN Let(find_insertion_point(split_node(node, length),
                                        IF partial THEN nodes + 1 ELSE nodes,
                                        IF partial THEN labels - 1 ELSE labels,
                                        drained),
                   LAMBDA rec :
                       [node |-> [current EXCEPT !.children[i] = rec.node],
                        path |-> <<i>> \o rec.path,
                        nodes |-> rec.nodes, labels |-> rec.labels, label |-> rec.label])

RECURSIVE node_at(_, _)
node_at(tree, path) ==
    IF path = <<>> THEN tree ELSE node_at(tree.children[Head(path)], Tail(path))

RECURSIVE replace_at(_, _, _)
replace_at(tree, path, new) ==
    IF path = <<>> THEN new
    ELSE [tree EXCEPT !.children[Head(path)] = replace_at(@, Tail(path), new)]

\* A push that reports an overwrite whenever the label ends at an existing node.
had_value_any_node(node) == TRUE

\* `let had_value = node.value.is_some();`
had_value(node) == IsSome(node.value)

\* push: the builder afterwards and the value returned.
push(b, label, value) ==
    Let(find_insertion_point(b.root, b.nodes, b.labels, label),
        LAMBDA fip :
            LET node == node_at(fip.node, fip.path)
            IN IF fip.label = <<>>
               THEN LET had == had_value(node)
                    IN [builder |-> [nodes |-> fip.nodes,
                                     labels |-> fip.labels,
                                     values |-> IF ~had THEN b.values + 1 ELSE b.values,
                                     root |-> replace_at(fip.node, fip.path,
                                                         [node EXCEPT !.value = Some(value)])],
                        ret |-> had]
               ELSE [builder |-> [nodes |-> fip.nodes + 1,
                                  labels |-> fip.labels + Len(fip.label),
                                  values |-> b.values + 1,
                                  root |-> replace_at(fip.node, fip.path,
                                               [node EXCEPT !.children =
                                                   Append(@, BuilderNode(fip.label, <<>>,
                                                                         Some(value)))])],
                     ret |-> FALSE])

(***************************************************************************)
(* build                                                                   *)
(***************************************************************************)
Node(label, value, children) == [label |-> label, value |-> value, children |-> children]
Range(start, end) == [start |-> start, end |-> end]

\* An ordering that puts the shorter label first.
label_less_by_length(a, b) == Len(a) < Len(b)

\* A sort that leaves the children as they are.
sort_by_label_unsorted(children) == children

\* Vec<u8> ordering: lexicographic on bytes, a proper prefix first.
RECURSIVE label_less(_, _)
label_less(a, b) ==
    IF Len(b) = 0 THEN FALSE
    ELSE IF Len(a) = 0 THEN TRUE
    ELSE IF a[1] # b[1] THEN a[1] < b[1]
    ELSE label_less(Tail(a), Tail(b))

\* sort_by is stable: insert after every element that is not greater.
RECURSIVE sort_insert(_, _)
sort_insert(sorted, x) ==
    IF sorted = <<>> THEN <<x>>
    ELSE IF label_less(x.label, Head(sorted).label) THEN <<x>> \o sorted
    ELSE <<Head(sorted)>> \o sort_insert(Tail(sorted), x)

RECURSIVE sort_by_label(_)
sort_by_label(children) ==
    IF children = <<>> THEN <<>>
    ELSE sort_insert(sort_by_label(SubSeq(children, 1, Len(children) - 1)),
                     children[Len(children)])

push_trie_node(nodes) == Append(nodes, Node(Range(0, 0), None, Range(0, 0)))

RECURSIVE push_trie_nodes(_, _)
push_trie_nodes(nodes, n) ==
    IF n = 0 THEN nodes ELSE push_trie_nodes(push_trie_node(nodes), n - 1)

\* A children range that runs one node too far.
children_range_long(child_index, count) == Range(child_index, child_index + count + 1)

\* The children range written into nodes[index].
children_range(child_index, count) == Range(child_index, child_index + count)

\* The label range written into nodes[index].
label_range(labels_len, label_len) == Range(labels_len, labels_len + label_len)

\* t is the three vectors under construction.
RECURSIVE into_trie_node(_, _, _)
RECURSIVE into_trie_children(_, _, _)
into_trie_node(current, index, t) ==
    LET withLabel == [t.nodes EXCEPT ![index + 1].label =
                          label_range(Len(t.labels), Len(current.label))]
        labels == t.labels \o current.label
        withValue == IF IsSome(current.value)
                     THEN [withLabel EXCEPT ![index + 1].value = Some(Len(t.values))]
                     ELSE withLabel
        values == IF IsSome(current.value)
                  THEN Append(t.values, Unwrap(current.value))
                  ELSE t.values
        child_index == Len(withValue)
    IN Let(sort_by_label(current.children),
           LAMBDA children :
               LET withChildren == [withValue EXCEPT ![index + 1].children =
                                        children_range(child_index, Len(children))]
               IN into_trie_children(children, child_index,
                                     [nodes |-> push_trie_nodes(withChildren, Len(children)),
                                      labels |-> labels, values |-> values]))

into_trie_children(children, child_index, t) ==
    IF children = <<>> THEN t
    ELSE Let(into_trie_node(Head(children), child_index, t),
             LAMBDA filled : into_trie_children(Tail(children), child_index + 1, filled))

\* build: the Trie and whether the three assert_eq! hold.
build(b) ==
    Let(into_trie_node(b.root, 0,
                       [nodes |-> push_trie_node(<<>>), labels |-> <<>>, values |-> <<>>]),
        LAMBDA t :
            [trie |-> t,
             asserts |-> /\ Len(t.nodes) = b.nodes
                         /\ Len(t.labels) = b.labels
                         /\ Len(t.values) = b.values])

(***************************************************************************)
(* Trie::lookup                                                            *)
(***************************************************************************)
\* How a lookup ends: with its return value, or in a panic (a slice index out
\* of range).  oob records that a checked access (`.get(..)?`) found its index
\* out of range and made the function return None.
Returned(result) == [panic |-> FALSE, oob |-> FALSE, result |-> result]
Panicked == [panic |-> TRUE, oob |-> FALSE, result |-> None]
OutOfRange == [panic |-> FALSE, oob |-> TRUE, result |-> None]

\* &self.labels[start..end] panics unless start <= end <= len.
slice_ok(labels, start, end) == start <= end /\ end <= Len(labels)

\* A result that counts the segment about to be read.
record_value_counts_ahead(t, current, current_segment, result) ==
    IF IsSome(current.value)
    THEN Some(<<t.values[Unwrap(current.value) + 1], current_segment + 1>>)
    ELSE result

\* The result a node contributes: `result = Some((self.values.get(value)?, current_segment))`.
record_value(t, current, current_segment, result) ==
    IF IsSome(current.value)
    THEN Some(<<t.values[Unwrap(current.value) + 1], current_segment>>)
    ELSE result

RECURSIVE lookup_loop(_, _, _, _, _)
RECURSIVE lookup_children(_, _, _, _, _, _, _)
RECURSIVE lookup_label(_, _, _, _, _, _, _)

\* One turn of the outer `loop`, at node current with label left to read.
lookup_loop(t, current, result, current_segment, label) ==
    IF IsSome(current.value) /\ Unwrap(current.value) >= Len(t.values) THEN OutOfRange
    ELSE LET result2 == record_value(t, current, current_segment, result)
         IN IF label = <<>> THEN Returned(result2)
            ELSE lookup_children(t, current, current.children.start, Head(label),
                                 Tail(label), current_segment + 1, result2)

\* The `for child in current.children.start..current.children.end` loop.
lookup_children(t, current, child, segment, label, current_segment, result) ==
    IF child >= current.children.end THEN Returned(result)
    ELSE IF child >= Len(t.nodes) THEN OutOfRange
    ELSE LET node == t.nodes[child + 1]
             label_start == node.label.start
             label_end == node.label.end
         IN IF ~slice_ok(t.labels, label_start, label_end) THEN Panicked
            ELSE LET length == common_prefix_length(segment,
                                                    Slice(t.labels, label_start, label_end))
                 IN IF length > 0
                    THEN lookup_label(t, node, label_start + length, label_end, label,
                                      current_segment, result)
                    ELSE lookup_children(t, current, child + 1, segment, label,
                                         current_segment, result)

\* The `while label_end > label_start` loop, then the descent into child.
lookup_label(t, child, label_start, label_end, label, current_segment, result) ==
    IF label_end > label_start
    THEN IF label = <<>> THEN Returned(result)
         ELSE IF ~slice_ok(t.labels, label_start + 1, label_end) THEN Panicked
         ELSE LET length == common_prefix_length(Head(label),
                                                 Slice(t.labels, label_start + 1, label_end))
              IN IF length > 0
                 THEN lookup_label(t, child, label_start + 1 + length, label_end, Tail(label),
                                   current_segment + 1, result)
                 ELSE Returned(result)
    ELSE lookup_loop(t, child, result, current_segment, label)

lookup(t, label) ==
    IF Len(t.nodes) = 0 THEN OutOfRange
    ELSE lookup_loop(t, t.nodes[1], None, 0, label)

(***************************************************************************)
(* Router: one trie keyed by the host token followed by the path segments. *)
(***************************************************************************)
\* The non-empty segments of a path split at the separator.
RECURSIVE path_segments(_, _)
path_segments(path, seg) ==
    IF path = <<>> THEN (IF seg = <<>> THEN <<>> ELSE <<seg>>)
    ELSE IF Head(path) = SEPARATOR
         THEN (IF seg = <<>> THEN <<>> ELSE <<seg>>) \o path_segments(Tail(path), <<>>)
    ELSE path_segments(Tail(path), Append(seg, Head(path)))

\* The key of a lookup: the host as one segment, then the path's segments.
make_key(host, path) == <<host>> \o path_segments(path, <<>>)

\* What is left of path after its first count segments, each with the
\* separators before it: the exact byte suffix not consumed by the match.
RECURSIVE skip_separators(_)
skip_separators(path) ==
    IF path # <<>> /\ Head(path) = SEPARATOR THEN skip_separators(Tail(path)) ELSE path

RECURSIVE skip_segment(_)
skip_segment(path) ==
    IF path # <<>> /\ Head(path) # SEPARATOR THEN skip_segment(Tail(path)) ELSE path

RECURSIVE path_tail(_, _)
path_tail(path, count) ==
    IF count = 0 THEN path
    ELSE path_tail(skip_segment(skip_separators(path)), count - 1)

\* RouterBuilder::push: the trie label is the normalized key.
router_push(b, host, path, value) == push(b, Join(make_key(host, path)), value).builder

\* Router::lookup: the value of the longest match and the tail of the path.
router_lookup(t, host, path) ==
    Let(lookup(t, make_key(host, path)).result,
        LAMBDA found :
            IF IsSome(found)
            THEN Some([value |-> Unwrap(found)[1],
                       tail |-> Some(path_tail(path, Unwrap(found)[2] - 1))])
            ELSE None)

(***************************************************************************)
(* Virtual hosts dispatcher                                                *)
(***************************************************************************)
Uri(authority, path, query) == [authority |-> authority, path |-> path, query |-> query]

\* host_from_uri: the host, with ":port" when the authority has a port.
host_from_uri(uri) ==
    IF ~IsSome(uri.authority) THEN None
    ELSE LET a == Unwrap(uri.authority)
         IN IF IsSome(a.port) THEN Some(a.host \o <<58>> \o Unwrap(a.port))
            ELSE Some(a.host)

\* PathAndQuery's parser: the bytes up to the first '?' are the path, the
\* rest the query; a byte that is no visible ASCII character is an error.
RECURSIVE index_of(_, _, _)
index_of(bytes, b, i) ==
    IF i > Len(bytes) THEN 0
    ELSE IF bytes[i] = b THEN i
    ELSE index_of(bytes, b, i + 1)

parse_path_and_query(bytes) ==
    IF \E i \in 1..Len(bytes) : bytes[i] \notin 33..126 THEN None
    ELSE LET q == index_of(bytes, 63, 1)
         IN IF q = 0 THEN Some([path |-> bytes, query |-> None])
            ELSE Some([path |-> SubSeq(bytes, 1, q - 1),
                       query |-> Some(SubSeq(bytes, q + 1, Len(bytes)))])

\* A string to parse that leaves the query out.
format_path_only(path, query) == path

\* The string set_uri_path parses: the new path, '?' and the old query.
format_path_and_query(path, query) ==
    IF IsSome(query) THEN path \o <<63>> \o Unwrap(query) ELSE path

\* set_uri_path: the URI is kept when the parts do not make one (an
\* authority without a path).
set_uri_path(uri, path) ==
    LET path_and_query == parse_path_and_query(format_path_and_query(path, uri.query))
    IN IF IsSome(path_and_query)
       THEN Uri(uri.authority, Unwrap(path_and_query).path, Unwrap(path_and_query).query)
       ELSE IF IsSome(uri.authority) THEN uri
       ELSE Uri(None, <<>>, None)

\* A tail with the separators at its start collapsed into one.
strip_tail_collapsed(tail) ==
    IF IsSome(tail) THEN Some(<<SEPARATOR>> \o skip_separators(Unwrap(tail))) ELSE None

\* A tail handed on as it is, empty or not.
strip_tail_as_is(tail) == tail

\* The tail a stripping entry hands on: "/" when nothing is left.
strip_tail(tail) ==
    IF IsSome(tail)
    THEN Some(IF Unwrap(tail) = <<>> THEN <<SEPARATOR>> ELSE Unwrap(tail))
    ELSE None

\* A rewrite that every entry asks for, stripping or not.
new_path_always(strip_prefix, tail) == strip_tail(tail)

\* What a stripping entry (TRUE) or another one (FALSE) rewrites the path to.
new_path(strip_prefix, tail) == IF strip_prefix THEN strip_tail(tail) ELSE None

\* best_match: the handler and the path to rewrite to, if any.
best_match(h, host, path) ==
    Let(router_lookup(h.handlers, host, path),
        LAMBDA found :
            IF IsSome(found)
            THEN Some([handler |-> Unwrap(found).value.handler,
                       new_path |-> new_path(Unwrap(found).value.strip_prefix,
                                             Unwrap(found).tail)])
            ELSE None)

\* HeaderValue::to_str: the value, if all of its bytes are visible ASCII or
\* tabs.
to_str(value) ==
    IF \A i \in DOMAIN value : value[i] \in 32..126 \/ value[i] = 9
    THEN Some(value) ELSE None

\* A resolution that asks the request target first.
resolve_host_uri_first(session) ==
    IF IsSome(host_from_uri(session.uri)) THEN host_from_uri(session.uri)
    ELSE IF IsSome(session.host) THEN to_str(Unwrap(session.host))
    ELSE None

\* `host = header.and_then(to_str).or_else(|| host_from_uri(uri))`
resolve_host(session) ==
    LET header == IF IsSome(session.host) THEN to_str(Unwrap(session.host)) ELSE None
    IN IF IsSome(header) THEN header ELSE host_from_uri(session.uri)

\* A match that looks the host up as an alias first.
host_match_alias_first(h, host, path) ==
    IF host \in DOMAIN h.aliases THEN best_match(h, h.aliases[host], path)
    ELSE best_match(h, host, path)

\* A match that does not know aliases.
host_match_no_alias(h, host, path) == best_match(h, host, path)

\* The match under the host itself, else under the host it is an alias of.
host_match(h, host, path) ==
    Let(best_match(h, host, path),
        LAMBDA direct :
            IF IsSome(direct) THEN direct
            ELSE IF host \in DOMAIN h.aliases THEN best_match(h, h.aliases[host], path)
            ELSE None)

\* The match under the default host, if there is one.
\* A dispatcher that has no fallback.
default_match_never(h, path) == None

default_match(h, path) ==
    IF IsSome(h.default) THEN best_match(h, Unwrap(h.default), path) ELSE None

\* A selection that gives up when the request has no host.
select_handler_needs_host(h, session) ==
    LET host == resolve_host(session)
        path == session.uri.path
    IN IF ~IsSome(host) THEN None
       ELSE Let(host_match(h, Unwrap(host), path),
                LAMBDA matched : IF IsSome(matched) THEN matched ELSE default_match(h, path))

\* The entry a request is handled by: `host.and_then(..).or_else(..)`.
select_handler(h, session) ==
    LET host == resolve_host(session)
        path == session.uri.path
    IN Let(IF IsSome(host) THEN host_match(h, Unwrap(host), path) ELSE None,
           LAMBDA matched : IF IsSome(matched) THEN matched ELSE default_match(h, path))

\* request_filter: the handler invoked, the URI it sees and the result.
\* A dispatcher that answers Unhandled whatever the handler answered.
request_filter_swallows(h, session) ==
    Let(select_handler(h, session),
        LAMBDA selected :
            IF IsSome(selected)
            THEN LET handler == Unwrap(selected).handler
                     rewrite == Unwrap(selected).new_path
                 IN [invoked |-> <<handler.id>>,
                     uri |-> IF IsSome(rewrite)
                             THEN set_uri_path(session.uri, Unwrap(rewrite))
                             ELSE session.uri,
                     result |-> "Unhandled"]
            ELSE [invoked |-> <<>>, uri |-> session.uri, result |-> "Unhandled"])

request_filter(h, session) ==
    Let(select_handler(h, session),
        LAMBDA selected :
            IF IsSome(selected)
            THEN LET handler == Unwrap(selected).handler
                     rewrite == Unwrap(selected).new_path
                 IN [invoked |-> <<handler.id>>,
                     uri |-> IF IsSome(rewrite)
                             THEN set_uri_path(session.uri, Unwrap(rewrite))
                             ELSE session.uri,
                     result |-> handler.result]
            ELSE [invoked |-> <<>>, uri |-> session.uri, result |-> "Unhandled"])

(***************************************************************************)
(* Building the dispatcher from its configuration.                         *)
(***************************************************************************)
\* `config.try_into()`: the handler, or None when the conversion fails.
try_into(config) ==
    IF config.ok THEN Some([id |-> config.id, result |-> config.result]) ELSE None

\* The entry pushed for a host or a sub-directory.
Entry(strip_prefix, handler) == [strip_prefix |-> strip_prefix, handler |-> handler]

\* A default that the latest host marked as default takes over.
set_default_latest(default, host) == Some(host)

\* The default host after a host marked as default was met.
set_default(default, host) == IF IsSome(default) THEN default ELSE Some(host)

\* `for alias in aliases { aliases.insert(alias, host) }`
RECURSIVE insert_aliases(_, _, _)
insert_aliases(aliases, names, host) ==
    IF names = <<>> THEN aliases
    ELSE insert_aliases((Head(names) :> host) @@ aliases, Tail(names), host)

\* The loop over a host's sub-directories, in the order the map yields them.
RECURSIVE push_subdirs(_, _, _, _)
push_subdirs(b, host, subdirs, paths) ==
    IF paths = <<>> THEN [err |-> FALSE, handlers |-> b]
    ELSE LET sub == subdirs[Head(paths)]
             handler == try_into(sub.config)
         IN IF ~IsSome(handler) THEN [err |-> TRUE, handlers |-> b]
            ELSE Let(router_push(b, host, Head(paths),
                                 Entry(sub.strip_prefix, Unwrap(handler))),
                     LAMBDA pushed_to : push_subdirs(pushed_to, host, subdirs, Tail(paths)))

\* The loop over the hosts, in the order the map yields them; order[i] is
\* the i-th host and suborder[host] the order of its sub-directories.
RECURSIVE push_hosts(_, _, _, _)
push_hosts(acc, vhosts, order, suborder) ==
    IF order = <<>> THEN acc
    ELSE LET host == Head(order)
             host_conf == vhosts[host]
             aliases == insert_aliases(acc.aliases, host_conf.aliases, host)
             default == IF host_conf.default THEN set_default(acc.default, host)
                        ELSE acc.default
             warned == host_conf.default /\ IsSome(acc.default)
             handler == try_into(host_conf.config)
         IN IF ~IsSome(handler) THEN [acc EXCEPT !.err = TRUE]
            ELSE Let(router_push(acc.handlers, host, <<>>, Entry(FALSE, Unwrap(handler))),
                     LAMBDA pushed_to :
                         Let(push_subdirs(pushed_to, host, host_conf.subdirs, suborder[host]),
                             LAMBDA subs :
                                 IF subs.err THEN [acc EXCEPT !.err = TRUE]
                                 ELSE Let([err |-> FALSE,
                                           handlers |-> subs.handlers,
                                           aliases |-> aliases,
                                           default |-> default,
                                           warnings |-> IF warned THEN acc.warnings + 1
                                                        ELSE acc.warnings],
                                          LAMBDA next :
                                              push_hosts(next, vhosts, Tail(order),
                                                         suborder))))

\* A construction that hands out what was registered before a conversion
\* failed.
try_from_partial(vhosts, order, suborder) ==
    Let(push_hosts([err |-> FALSE, handlers |-> TrieBuilder_new,
                    aliases |-> <<>>, default |-> None, warnings |-> 0],
                   vhosts, order, suborder),
        LAMBDA acc :
            [err |-> FALSE,
             handlers |-> build(acc.handlers).trie,
             aliases |-> acc.aliases,
             default |-> acc.default,
             warnings |-> acc.warnings])

\* try_from: the dispatcher, or the error of the first conversion to fail.
try_from(vhosts, order, suborder) ==
    Let(push_hosts([err |-> FALSE, handlers |-> TrieBuilder_new,
                    aliases |-> <<>>, default |-> None, warnings |-> 0],
                   vhosts, order, suborder),
        LAMBDA acc :
            IF acc.err THEN [err |-> TRUE]
            ELSE [err |-> FALSE,
                  handlers |-> build(acc.handlers).trie,
                  aliases |-> acc.aliases,
                  default |-> acc.default,
                  warnings |-> acc.warnings])

(***************************************************************************)
(* MatchRules (headers-module/src/configuration.rs) over HostPathMatcher   *)
(* and PathMatchResult.  A Path is the sequence of its segments.           *)
(***************************************************************************)
\* PathMatchResult: how a pattern matched a host and a path.
EMPTY == [exact |-> FALSE, prefix |-> FALSE, fallback |-> FALSE]
set_exact(result) == [result EXCEPT !.exact = TRUE]
set_prefix(result) == [result EXCEPT !.prefix = TRUE]
set_fallback(result) == [result EXCEPT !.fallback = TRUE]
any(result) == result.exact \/ result.prefix

\* HostPathMatcher: "host/dir" (exact), "host/dir/*" (prefix), and without
\* a host the patterns for every host.
HostPathMatcher(host, path, exact) == [host |-> host, path |-> path, exact |-> exact]

is_prefix_of(prefix, path) ==
    Len(prefix) <= Len(path) /\ SubSeq(path, 1, Len(prefix)) = prefix

\* HostPathMatcher::matches
matcher_matches(matcher, host, path, force_prefix) ==
    IF matcher.host # <<>> /\ matcher.host # host THEN EMPTY
    ELSE LET base == IF matcher.host = <<>> /\ host # <<>> THEN set_fallback(EMPTY)
                     ELSE EMPTY
             as_prefix == ~matcher.exact \/ force_prefix
         IN IF matcher.path = path
            THEN (IF as_prefix THEN set_prefix(set_exact(base)) ELSE set_exact(base))
            ELSE IF as_prefix /\ is_prefix_of(matcher.path, path) THEN set_prefix(base)
            ELSE EMPTY

\* The order of HostPathMatcher, by how specific the pattern is: one with a
\* host above one without, then the longer path, then exact above prefix.
specificity(matcher) ==
    <<IF matcher.host # <<>> THEN 1 ELSE 0, Len(matcher.path), IF matcher.exact THEN 1 ELSE 0>>

matcher_gt(a, b) ==
    LET ka == specificity(a)
        kb == specificity(b)
    IN \/ ka[1] > kb[1]
       \/ ka[1] = kb[1] /\ ka[2] > kb[2]
       \/ ka[1] = kb[1] /\ ka[2] = kb[2] /\ ka[3] > kb[3]

\* find_match: the fold over the rules, from (EMPTY, None).
RECURSIVE find_match_fold(_, _, _, _, _)
find_match_fold(rules_left, acc, host, path, force_prefix) ==
    IF rules_left = <<>> THEN acc
    ELSE LET current == Head(rules_left)
             result == matcher_matches(current, host, path, force_prefix)
             next == IF any(result)
                     THEN (IF IsSome(acc.matcher) /\ matcher_gt(Unwrap(acc.matcher), current)
                           THEN acc
                           ELSE [result |-> result, matcher |-> Some(current)])
                     ELSE acc
         IN find_match_fold(Tail(rules_left), next, host, path, force_prefix)

find_match(rule_list, host, path, force_prefix) ==
    find_match_fold(rule_list, [result |-> EMPTY, matcher |-> None], host, path, force_prefix)

\* A catch-all that never counts as a fallback.
match_everything_plain(host, path) ==
    IF path = <<>> THEN set_prefix(set_exact(EMPTY)) ELSE set_prefix(EMPTY)

\* The result of rules without include and exclude.
match_everything(host, path) ==
    LET result == IF host = <<>> THEN EMPTY ELSE set_fallback(EMPTY)
    IN IF path = <<>> THEN set_prefix(set_exact(result)) ELSE set_prefix(result)

\* An include that also wins when the exclude is as specific.
include_wins_ties(include, exclude) ==
    IsSome(include) /\ ~matcher_gt(exclude, Unwrap(include))

\* `include.is_some_and(|include| include > exclude)`
include_wins(include, exclude) ==
    IsSome(include) /\ matcher_gt(Unwrap(include), exclude)

\* Rules that apply wherever no exclude matches when they include nothing.
matches_unless_excluded(match_rules, host, path, force_prefix) ==
    IF match_rules.include = <<>>
    THEN (IF IsSome(find_match(match_rules.exclude, host, path, force_prefix).matcher)
          THEN EMPTY ELSE match_everything(host, path))
    ELSE LET exclude == find_match(match_rules.exclude, host, path, force_prefix).matcher
             found == find_match(match_rules.include, host, path, force_prefix)
         IN IF IsSome(exclude)
            THEN (IF include_wins(found.matcher, Unwrap(exclude)) THEN found.result ELSE EMPTY)
            ELSE found.result

\* MatchRules::matches
matches(match_rules, host, path, force_prefix) ==
    IF match_rules.include = <<>> /\ match_rules.exclude = <<>>
    THEN match_everything(host, path)
    ELSE LET exclude == find_match(match_rules.exclude, host, path, force_prefix).matcher
             found == find_match(match_rules.include, host, path, force_prefix)
         IN IF IsSome(exclude)
            THEN (IF include_wins(found.matcher, Unwrap(exclude)) THEN found.result ELSE EMPTY)
            ELSE found.result

(***************************************************************************)
(* The trie's life: pushes, one build, lookups.                            *)
(***************************************************************************)
TrieInit ==
    /\ builder = TrieBuilder_new
    /\ pushed = <<>>
    /\ pushRet = None
    /\ trie = None
    /\ lookupKey = None
    /\ lookupResult = None
    /\ lcpArgs = None
    /\ lcpResult = None

Init ==
    /\ TrieInit
    /\ conf = None
    /\ yielded = None
    /\ dispatcher = None
    /\ request = None
    /\ outcome = None
    /\ rules = None
    /\ asked = None
    /\ answer = None
    /\ tasks = <<>>

\* builder.push(label, value); the value pushed is the number of the push.
Push ==
    /\ trie = None
    /\ Len(pushed) < MaxPushes
    /\ \E label \in Labels :
          LET value == Len(pushed) + 1
              r == push(builder, label, value)
          IN /\ builder' = r.builder
             /\ pushRet' = Some(r.ret)
             /\ pushed' = Append(pushed, [label |-> label, value |-> value])
    /\ UNCHANGED <<trie, lookupKey, lookupResult, lcpArgs, lcpResult>>
    /\ UNCHANGED <<vhVars, mrVars, tasks>>

\* builder.build(), which consumes the builder.
Build ==
    /\ trie = None
    /\ trie' = Some(build(builder))
    /\ UNCHANGED <<builder, pushed, pushRet, lookupKey, lookupResult, lcpArgs, lcpResult>>
    /\ UNCHANGED <<vhVars, mrVars, tasks>>

\* trie.lookup(key) on the built trie.
Lookup ==
    /\ trie # None
    /\ lookupKey = None
    /\ \E key \in Keys :
          /\ lookupKey' = Some(key)
          /\ lookupResult' = Some(lookup(Unwrap(trie).trie, key))
    /\ UNCHANGED <<builder, pushed, pushRet, trie, lcpArgs, lcpResult>>
    /\ UNCHANGED <<vhVars, mrVars, tasks>>

Next == Push \/ Build \/ Lookup

Spec == Init /\ [][Next]_vars

(***************************************************************************)
(* Lookups with segments that are not normalized: empty, ending in a       *)
(* separator, or spanning two segments.                                    *)
(***************************************************************************)
RawSegments == {<<>>, <<97>>, <<97, 47>>, <<97, 47, 97>>}

RECURSIVE RawSeqs(_)
RawSeqs(n) ==
    IF n = 0 THEN {<<>>}
    ELSE LET shorter == RawSeqs(n - 1)
         IN shorter \cup {Append(s, x) : s \in {t \in shorter : Len(t) = n - 1}, x \in RawSegments}

RawKeys == RawSeqs(MaxKeySegs)

\* trie.lookup(key) with any finite sequence of segments.
LookupRaw ==
    /\ trie # None
    /\ lookupKey = None
    /\ \E key \in RawKeys :
          /\ lookupKey' = Some(key)
          /\ lookupResult' = Some(lookup(Unwrap(trie).trie, key))
    /\ UNCHANGED <<builder, pushed, pushRet, trie, lcpArgs, lcpResult>>
    /\ UNCHANGED <<vhVars, mrVars, tasks>>

NextRaw == Push \/ Build \/ LookupRaw

SpecRaw == Init /\ [][NextRaw]_vars

(***************************************************************************)
(* The dispatcher's life: one configuration, one build, requests.          *)
(*                                                                         *)
(* Host names: "h" (104), "g" (103), "x" (120), "u" (117) and "h:8".       *)
(* Sub-directories: "/a/", "/a/ab" and "/".                                *)
(***************************************************************************)
MaxPathSegs == 3

HostH == <<104>>
HostG == <<103>>
HostX == <<120>>
HostU == <<117>>
HostH8 == <<104, 58, 56>>
\* A Host header value that is no string.
HostBad == <<200>>

SubdirA == <<47, 97, 47>>
SubdirAAb == <<47, 97, 47, 97, 98>>
SubdirRoot == <<47>>
Subdirs == {SubdirA, SubdirAAb, SubdirRoot}

\* What the dispatcher of an entry answers, as the tests' Handler does from
\* its configuration.
EntryResult(host, path) ==
    IF host = HostG THEN "Error"
    ELSE IF path = <<>> THEN "ResponseSent"
    ELSE IF path = SubdirA THEN "Unhandled"
    ELSE "Handled"

Config(host, path, ok) ==
    [id |-> <<host, path>>, result |-> EntryResult(host, path), ok |-> ok]

SubDirCombined(host, path, strip_prefix, ok) ==
    [strip_prefix |-> strip_prefix, config |-> Config(host, path, ok)]

VirtualHostCombined(host, aliases, default, subdirs, ok) ==
    [aliases |-> aliases, default |-> default, subdirs |-> subdirs,
     config |-> Config(host, <<>>, ok)]

\* Every choice of sub-directories of a host, each stripping or not.
SubdirMaps(host) ==
    UNION {{[p \in paths |-> SubDirCombined(host, p, strip[p], TRUE)] :
               strip \in [paths -> BOOLEAN]} : paths \in SUBSET Subdirs}

\* One host h with any sub-directories, default or not, x its alias.
PathConfs ==
    {(HostH :> VirtualHostCombined(HostH, <<HostX>>, default, subdirs, TRUE)) :
        default \in BOOLEAN, subdirs \in SubdirMaps(HostH)}

\* The host h, if configured, has the stripping sub-directory "/a/".
HostHConfs ==
    {VirtualHostCombined(HostH, aliases, default,
                         (SubdirA :> SubDirCombined(HostH, SubdirA, TRUE, ok)), TRUE) :
        aliases \in {<<>>, <<HostX>>, <<HostX, HostG>>}, default \in BOOLEAN,
        ok \in BOOLEAN}

\* The host g, if configured, has no sub-directory.
HostGConfs ==
    {VirtualHostCombined(HostG, aliases, default, <<>>, ok) :
        aliases \in {<<>>, <<HostX>>, <<HostH8>>}, default \in BOOLEAN, ok \in BOOLEAN}

\* Neither, either or both of h and g.
HostConfs ==
    {<<>>}
    \cup {(HostH :> ch) : ch \in HostHConfs}
    \cup {(HostG :> cg) : cg \in HostGConfs}
    \cup {(HostH :> ch) @@ (HostG :> cg) : ch \in HostHConfs, cg \in HostGConfs}

Confs == PathConfs \cup HostConfs

\* Request paths: up to MaxPathSegs segments, each after one or two
\* separators, and up to two separators at the end.
Separators == {<<47>>, <<47, 47>>}

RECURSIVE PathPrefixes(_)
PathPrefixes(n) ==
    IF n = 0 THEN {<<>>}
    ELSE LET shorter == PathPrefixes(n - 1)
         IN shorter \cup {p \o sep \o seg : p \in shorter, sep \in Separators,
                                             seg \in Segments}

Paths ==
    {p \o end : p \in PathPrefixes(MaxPathSegs), end \in Separators \cup {<<>>}}
        \ {<<>>}

\* No query, the empty query and the query "a?".
Queries == {None, Some(<<>>), Some(<<97, 63>>)}

Session(host, uri) == [host |-> host, uri |-> uri]

\* Every path and query, for h and for a host that is not configured.
PathSessions ==
    {Session(Some(host), Uri(None, path, query)) :
        host \in {HostH, HostU}, path \in Paths, query \in Queries}

Authorities ==
    {None, Some([host |-> HostG, port |-> None]), Some([host |-> HostH, port |-> Some(<<56>>)])}

\* Every Host header and request target authority, for a few paths.
HostSessions ==
    {Session(host, Uri(authority, path, None)) :
        host \in {None, Some(HostH), Some(HostG), Some(HostX), Some(HostU), Some(HostBad)},
        authority \in Authorities,
        path \in {<<47>>, <<47, 97>>, <<47, 47, 97, 47, 47, 97, 98, 47>>, <<47, 97, 98>>}}

Sessions == PathSessions \cup HostSessions

\* The orders in which a map with these keys may yield them.
Orders(keys) ==
    {o \in [1..Cardinality(keys) -> keys] : \A k \in keys : \E i \in DOMAIN o : o[i] = k}

VHInit ==
    /\ TrieInit
    /\ conf \in Confs
    /\ yielded = None
    /\ dispatcher = None
    /\ request = None
    /\ outcome = None
    /\ rules = None
    /\ asked = None
    /\ answer = None
    /\ tasks = <<>>

\* VirtualHostsHandler::try_from(conf)
TryFrom ==
    /\ dispatcher = None
    /\ \E order \in Orders(DOMAIN conf) :
          \E suborder \in [DOMAIN conf -> UNION {Orders(ks) : ks \in SUBSET Subdirs}] :
             /\ \A host \in DOMAIN conf :
                   suborder[host] \in Orders(DOMAIN conf[host].subdirs)
             /\ yielded' = Some([order |-> order, suborder |-> suborder])
             /\ dispatcher' = Some(try_from(conf, order, suborder))
    /\ UNCHANGED <<conf, request, outcome>>
    /\ UNCHANGED <<trieVars, mrVars, tasks>>

\* handler.request_filter(session, ctx)
RequestFilter ==
    /\ dispatcher # None
    /\ ~Unwrap(dispatcher).err
    /\ request = None
    /\ \E s \in Sessions :
          /\ request' = Some(s)
          /\ outcome' = Some(request_filter(Unwrap(dispatcher), s))
    /\ UNCHANGED <<conf, yielded, dispatcher>>
    /\ UNCHANGED <<trieVars, mrVars, tasks>>

VHNext == TryFrom \/ RequestFilter

SpecVH == VHInit /\ [][VHNext]_vars

(***************************************************************************)
(* What the pushes made so far ask of the trie.                            *)
(***************************************************************************)
\* The segments of a normalized label.
RECURSIVE SplitLabel(_, _)
SplitLabel(label, seg) ==
    IF label = <<>> THEN (IF seg = <<>> THEN <<>> ELSE <<seg>>)
    ELSE IF Head(label) = SEPARATOR THEN <<seg>> \o SplitLabel(Tail(label), <<>>)
    ELSE SplitLabel(Tail(label), Append(seg, Head(label)))

SegmentsOf(label) == SplitLabel(label, <<>>)

IsSegmentPrefix(segs, key) ==
    Len(segs) <= Len(key) /\ SubSeq(key, 1, Len(segs)) = segs

PushedLabels == {pushed[i].label : i \in 1..Len(pushed)}

\* The value of the latest push of label.
LatestValue(label) ==
    LET is == {i \in 1..Len(pushed) : pushed[i].label = label}
    IN pushed[CHOOSE i \in is : \A j \in is : j <= i].value

MatchingLabels(key) == {l \in PushedLabels : IsSegmentPrefix(SegmentsOf(l), key)}

LongestMatch(key) ==
    CHOOSE l \in MatchingLabels(key) :
        \A m \in MatchingLabels(key) : Len(SegmentsOf(m)) <= Len(SegmentsOf(l))

LookupDone == lookupResult # None
TheKey == Unwrap(lookupKey)
TheLookup == Unwrap(lookupResult)

\* C1: a lookup of a normalized key returns the value most recently pushed
\* for the longest pushed label that is a whole-segment prefix of the key
\* (the empty label is a prefix of every key), and None exactly when no
\* pushed label is such a prefix; a byte prefix of a segment does not match.
C1_LongestPrefixValue ==
    LookupDone =>
        /\ ~TheLookup.panic
        /\ IsSome(TheLookup.result) <=> MatchingLabels(TheKey) # {}
        /\ IsSome(TheLookup.result) =>
              Unwrap(TheLookup.result)[1] = LatestValue(LongestMatch(TheKey))

\* Labels a and a/a were pushed, a twice; the key a/ab has the byte prefix
\* a/a but only the label a as a segment prefix, and the later value is found.
C1_Witness ==
    /\ LookupDone
    /\ Len(pushed) = 3
    /\ PushedLabels = {<<97>>, <<97, 47, 97>>}
    /\ pushed[3].label = <<97>>
    /\ TheKey = <<<<97>>, <<97, 98>>>>
    /\ TheLookup.result = Some(<<3, 1>>)

\* C2: the count a lookup returns is the number of segments of the pushed
\* label whose value it returns, and that label is the first n segments of
\* the key, whatever was read beyond them.
C2_ConsumedCount ==
    (LookupDone /\ IsSome(TheLookup.result)) =>
        LET value == Unwrap(TheLookup.result)[1]
            n == Unwrap(TheLookup.result)[2]
        IN /\ value \in 1..Len(pushed)
           /\ n = Len(SegmentsOf(pushed[value].label))
           /\ n <= Len(TheKey)
           /\ SubSeq(TheKey, 1, n) = SegmentsOf(pushed[value].label)

\* The root has a value and one child a/ab; the key a/a reads two segments
\* before the child fails to match, and the count returned is 0.
C2_Witness ==
    /\ LookupDone
    /\ PushedLabels = {<<>>, <<97, 47, 97, 98>>}
    /\ TheKey = <<<<97>>, <<97>>>>
    /\ IsSome(TheLookup.result)
    /\ Unwrap(TheLookup.result)[2] = 0

\* The values a built trie holds.
TrieValues(t) == {t.values[i] : i \in 1..Len(t.values)}

\* C3: push returns true exactly when an earlier push used the same label,
\* so not when the label only ends at a node made by a split; the built trie
\* holds one value for each pushed label, the latest.
C3_PushOverwrites ==
    /\ IsSome(pushRet) =>
          (Unwrap(pushRet) <=>
              \E i \in 1..(Len(pushed) - 1) : pushed[i].label = pushed[Len(pushed)].label)
    /\ IsSome(trie) =>
          /\ TrieValues(Unwrap(trie).trie) = {LatestValue(l) : l \in PushedLabels}
          /\ Len(Unwrap(trie).trie.values) = Cardinality(PushedLabels)

\* a/a and a/ab were pushed, which splits off a node a without a value; then
\* a was pushed and push returned false.
C3_Witness ==
    /\ Len(pushed) = 3
    /\ pushed[1].label = <<97, 47, 97>>
    /\ pushed[2].label = <<97, 47, 97, 98>>
    /\ pushed[3].label = <<97>>
    /\ pushRet = Some(FALSE)
    /\ IsSome(trie)

\* C4: a lookup never fails: no slice of the labels is out of range (no
\* panic), no node or value index is out of range, and it ends with a match
\* or with None, for any sequence of segments.
C4_LookupNeverFails ==
    LookupDone =>
        /\ ~TheLookup.panic
        /\ ~TheLookup.oob
        /\ Len(TheLookup.result) <= 1

\* A lookup with an empty segment and one that spans two segments, in a trie
\* of three nodes below the root, that finds nothing.
C4_Witness ==
    /\ LookupDone
    /\ Len(Unwrap(trie).trie.nodes) = 4
    /\ TheKey = <<<<97, 47, 97>>, <<>>, <<97>>>>
    /\ TheLookup = Returned(None)

(***************************************************************************)
(* What a request asks of the dispatcher.                                  *)
(***************************************************************************)
RequestDone == outcome # None
TheRequest == Unwrap(request)
TheOutcome == Unwrap(outcome)
TheDispatcher == Unwrap(dispatcher)

\* The entry invoked, as <<host, sub-directory>>; the host's own entry has
\* the empty sub-directory.
Invoked == Unwrap(TheOutcome.invoked)
WasInvoked == RequestDone /\ IsSome(TheOutcome.invoked)

\* Whether the configuration asks that entry to strip its prefix.
StripsPrefix(id) ==
    id[2] # <<>> /\ conf[id[1]].subdirs[id[2]].strip_prefix

\* The bytes of path after the prefix that holds the segments of mount and
\* ends with the last of them.
SuffixAfter(path, mount) ==
    LET k == CHOOSE k \in 0..Len(path) :
                 /\ path_segments(SubSeq(path, 1, k), <<>>) = path_segments(mount, <<>>)
                 /\ k > 0 => path[k] # SEPARATOR
                 /\ k < Len(path) => path[k + 1] = SEPARATOR
    IN SubSeq(path, k + 1, Len(path))

StrippedSuffix == SuffixAfter(TheRequest.uri.path, Invoked[2])

\* C5: when the entry matched strips its prefix, the path is rewritten to
\* the exact bytes of the request path that follow the matched prefix,
\* repeated and leading separators included.
C5_ExactSuffix ==
    (WasInvoked /\ StripsPrefix(Invoked) /\ StrippedSuffix # <<>>) =>
        TheOutcome.uri.path = StrippedSuffix

\* The sub-directory "/a/" strips, the path is "//a//ab//" and is rewritten
\* to "//ab//".
C5_Witness ==
    /\ WasInvoked
    /\ Invoked = <<HostH, SubdirA>>
    /\ StripsPrefix(Invoked)
    /\ TheRequest.uri.path = <<47, 47, 97, 47, 47, 97, 98, 47, 47>>
    /\ TheOutcome.uri.path = <<47, 47, 97, 98, 47, 47>>

\* C6: when the entry matched strips its prefix and the request path is the
\* matched prefix alone or with one separator after it, the path is
\* rewritten to "/".
C6_RootWhenConsumed ==
    (WasInvoked /\ StripsPrefix(Invoked) /\ StrippedSuffix \in {<<>>, <<SEPARATOR>>}) =>
        TheOutcome.uri.path = <<SEPARATOR>>

\* The sub-directory "/a/" strips and the path "/a" is rewritten to "/".
C6_Witness ==
    /\ WasInvoked
    /\ Invoked = <<HostH, SubdirA>>
    /\ StripsPrefix(Invoked)
    /\ TheRequest.uri.path = <<47, 97>>
    /\ TheOutcome.uri.path = <<47>>

\* C7: rewriting the path for a stripping entry leaves the query of the URI
\* as it was, present with the same content or absent.
C7_QueryKept ==
    (WasInvoked /\ StripsPrefix(Invoked)) =>
        TheOutcome.uri.query = TheRequest.uri.query

\* A path was rewritten for a request with the query "a?".
C7_Witness ==
    /\ WasInvoked
    /\ StripsPrefix(Invoked)
    /\ TheOutcome.uri.path # TheRequest.uri.path
    /\ TheRequest.uri.query = Some(<<97, 63>>)
    /\ TheOutcome.uri.query = Some(<<97, 63>>)

\* C8: when the entry matched does not strip its prefix (a host's own entry
\* or a sub-directory that does not strip, also one below a stripping one),
\* or when nothing matches, the URI is left as it was received.
C8_UriUntouched ==
    (RequestDone /\ (~IsSome(TheOutcome.invoked) \/ ~StripsPrefix(Invoked))) =>
        TheOutcome.uri = TheRequest.uri

\* "/a/" strips and "/a/ab" below it does not; the path "/a/ab/a" is given
\* to the latter as it is.
C8_Witness ==
    /\ WasInvoked
    /\ Invoked = <<HostH, SubdirAAb>>
    /\ ~StripsPrefix(Invoked)
    /\ SubdirA \in DOMAIN conf[HostH].subdirs
    /\ conf[HostH].subdirs[SubdirA].strip_prefix
    /\ TheRequest.uri.path = <<47, 97, 47, 97, 98, 47, 97>>
    /\ TheOutcome.uri = TheRequest.uri

\* The host of the request: the Host header, else the authority of the
\* request target with its port.
ResolvedHost ==
    IF IsSome(TheRequest.host) /\ Unwrap(TheRequest.host) # HostBad THEN TheRequest.host
    ELSE IF IsSome(TheRequest.uri.authority)
         THEN LET a == Unwrap(TheRequest.uri.authority)
              IN Some(IF IsSome(a.port) THEN a.host \o <<58>> \o Unwrap(a.port) ELSE a.host)
    ELSE None

\* C9: a request whose host is a configured host is given to an entry of
\* that host, its own or one of its sub-directories, whatever the path,
\* and never to an entry of the default host or of a host it is an alias of.
C9_HostBeforeDefault ==
    (RequestDone /\ IsSome(ResolvedHost) /\ Unwrap(ResolvedHost) \in DOMAIN conf) =>
        /\ IsSome(TheOutcome.invoked)
        /\ Invoked[1] = Unwrap(ResolvedHost)
        /\ Invoked[2] = <<>> \/ Invoked[2] \in DOMAIN conf[Invoked[1]].subdirs

\* g is configured, h is the default host and has g among its aliases; a
\* request for g is given to g's entry.
C9_Witness ==
    /\ WasInvoked
    /\ DOMAIN conf = {HostH, HostG}
    /\ TheDispatcher.default = Some(HostH)
    /\ HostG \in DOMAIN TheDispatcher.aliases
    /\ ResolvedHost = Some(HostG)
    /\ Invoked = <<HostG, <<>>>>

\* C10: a request whose host has no match of its own but is registered as
\* an alias of a host is handled as the same request for that host is: the
\* same entry, the same rewritten URI.
C10_AliasAsCanonical ==
    (RequestDone /\ IsSome(ResolvedHost)
        /\ Unwrap(ResolvedHost) \notin DOMAIN conf
        /\ Unwrap(ResolvedHost) \in DOMAIN TheDispatcher.aliases) =>
        LET canonical == TheDispatcher.aliases[Unwrap(ResolvedHost)]
            asCanonical == request_filter(TheDispatcher,
                                          [TheRequest EXCEPT !.host = Some(canonical)])
        IN /\ canonical \in DOMAIN conf
           /\ IsSome(TheOutcome.invoked)
           /\ Invoked[1] = canonical
           /\ TheOutcome = asCanonical

\* x is an alias of h, which is not the default host; a request for x with
\* the path "/a/ab" is given to h's stripping sub-directory "/a/" and
\* rewritten to "/ab".
C10_Witness ==
    /\ WasInvoked
    /\ ResolvedHost = Some(HostX)
    /\ HostX \in DOMAIN TheDispatcher.aliases
    /\ TheDispatcher.aliases[HostX] = HostH
    /\ TheDispatcher.default # Some(HostH)
    /\ Invoked = <<HostH, SubdirA>>
    /\ TheRequest.uri.path = <<47, 47, 97, 47, 47, 97, 98, 47>>
    /\ TheOutcome.uri.path = <<47, 47, 97, 98, 47>>

(***************************************************************************)
(* Fallback, host resolution, results and construction of the dispatcher.  *)
(***************************************************************************)
\* The non-empty segments of a path.
PathSegs(path) == SelectSeq(SplitLabel(path, <<>>), LAMBDA seg : seg # <<>>)

\* The sub-directories of a host that hold the path, the host's own entry
\* among them as the empty one.
MountsHolding(host, path) ==
    {m \in {<<>>} \cup DOMAIN conf[host].subdirs :
        IsSegmentPrefix(PathSegs(m), PathSegs(path))}

\* The entry of a host for a path: the sub-directory with the most
\* segments that holds the path, the host's own entry if there is none.
EntryFor(host, path) ==
    LET deepest == {m \in MountsHolding(host, path) :
                       \A n \in MountsHolding(host, path) :
                           Len(PathSegs(n)) <= Len(PathSegs(m))}
    IN IF deepest \ {<<>>} # {} THEN CHOOSE m \in deepest : m # <<>> ELSE <<>>

\* The hosts marked as default and the names given as aliases.
DefaultHosts == {h \in DOMAIN conf : conf[h].default}
AliasNames == UNION {{conf[h].aliases[i] : i \in DOMAIN conf[h].aliases} : h \in DOMAIN conf}

\* C11: a request whose host is neither a configured host nor an alias is
\* given to the default host's entry for the request path if a host is
\* marked as default; otherwise no handler is invoked, the result is
\* Unhandled and the URI is left alone.
C11_DefaultFallback ==
    (RequestDone /\ IsSome(ResolvedHost)
        /\ Unwrap(ResolvedHost) \notin DOMAIN conf
        /\ Unwrap(ResolvedHost) \notin AliasNames) =>
        IF DefaultHosts # {}
        THEN /\ IsSome(TheOutcome.invoked)
             /\ Invoked[1] \in DefaultHosts
             /\ TheDispatcher.default = Some(Invoked[1])
             /\ Invoked[2] = EntryFor(Invoked[1], TheRequest.uri.path)
        ELSE /\ TheOutcome.invoked = None
             /\ TheOutcome.result = "Unhandled"
             /\ TheOutcome.uri = TheRequest.uri

\* u is not configured, h is the default host with the sub-directory "/a/";
\* a request for u with the path "/a/ab" is given to that sub-directory.
C11_Witness ==
    /\ WasInvoked
    /\ ResolvedHost = Some(HostU)
    /\ DefaultHosts = {HostH}
    /\ TheRequest.uri.path = <<47, 97, 47, 97, 98>>
    /\ Invoked = <<HostH, SubdirA>>

\* The name in the request target: the host, with ":port" if it has one.
AuthorityName ==
    LET a == Unwrap(TheRequest.uri.authority)
    IN IF IsSome(a.port) THEN a.host \o <<58>> \o Unwrap(a.port) ELSE a.host

UsableHeader == IsSome(TheRequest.host) /\ Unwrap(TheRequest.host) # HostBad

\* The host whose entries serve a name: itself if configured, else the host
\* it is an alias of, else the default host.
ServingHost(name) ==
    IF name \in DOMAIN conf THEN Some(name)
    ELSE IF name \in DOMAIN TheDispatcher.aliases THEN Some(TheDispatcher.aliases[name])
    ELSE TheDispatcher.default

\* C12: with a usable Host header and a request target that names another
\* configured host, the entry is one of the header's host; without a usable
\* Host header the name in the request target, port included, decides.
C12_HeaderBeforeAuthority ==
    /\ (RequestDone /\ UsableHeader /\ IsSome(TheRequest.uri.authority)
           /\ Unwrap(TheRequest.host) \in DOMAIN conf
           /\ Unwrap(TheRequest.uri.authority).host \in DOMAIN conf
           /\ Unwrap(TheRequest.uri.authority).host # Unwrap(TheRequest.host)) =>
           (IsSome(TheOutcome.invoked) /\ Invoked[1] = Unwrap(TheRequest.host))
    /\ (RequestDone /\ ~UsableHeader /\ IsSome(TheRequest.uri.authority)) =>
           IF IsSome(ServingHost(AuthorityName))
           THEN IsSome(TheOutcome.invoked) /\ Invoked[1] = Unwrap(ServingHost(AuthorityName))
           ELSE TheOutcome.invoked = None

\* h and g are configured; a request with the Host header h for the target
\* host g is given to h.
C12_Witness ==
    /\ WasInvoked
    /\ DOMAIN conf = {HostH, HostG}
    /\ TheRequest.host = Some(HostH)
    /\ TheRequest.uri.authority = Some([host |-> HostG, port |-> None])
    /\ Invoked[1] = HostH

\* The handler configuration of an entry.
ConfigOf(id) ==
    IF id[2] = <<>> THEN conf[id[1]].config ELSE conf[id[1]].subdirs[id[2]].config

\* C13: when an entry is matched, one handler is invoked and the result is
\* the result of that handler.
C13_ResultPassedOn ==
    WasInvoked =>
        /\ Len(TheOutcome.invoked) = 1
        /\ TheOutcome.result = ConfigOf(Invoked).result

\* The handler of g fails and the dispatcher's result is that error.
C13_Witness ==
    /\ WasInvoked
    /\ Invoked = <<HostG, <<>>>>
    /\ ConfigOf(Invoked).result = "Error"
    /\ TheOutcome.result = "Error"

Built == dispatcher # None /\ ~TheDispatcher.err

\* The hosts marked as default at the positions of the iteration.
DefaultPositions ==
    {i \in DOMAIN Unwrap(yielded).order : conf[Unwrap(yielded).order[i]].default}

\* C14: the default host of the dispatcher is the first host marked as
\* default that the iteration of the configuration met; each later one
\* counts one warning, the construction succeeds, and every host has an
\* entry of its own name.
C14_FirstDefaultWins ==
    Built =>
        /\ IF DefaultPositions = {} THEN TheDispatcher.default = None
           ELSE \E i \in DefaultPositions :
                   /\ \A j \in DefaultPositions : i <= j
                   /\ TheDispatcher.default = Some(Unwrap(yielded).order[i])
        /\ TheDispatcher.warnings =
               IF DefaultPositions = {} THEN 0 ELSE Cardinality(DefaultPositions) - 1
        /\ \A host \in DOMAIN conf :
              LET found == router_lookup(TheDispatcher.handlers, host, <<SEPARATOR>>)
              IN IsSome(found) /\ Unwrap(found).value.handler.id[1] = host

\* g and h are both marked as default and g is met first: g is the default
\* host, with one warning.
C14_Witness ==
    /\ Built
    /\ Unwrap(yielded).order = <<HostG, HostH>>
    /\ conf[HostG].default /\ conf[HostH].default
    /\ TheDispatcher.default = Some(HostG)
    /\ TheDispatcher.warnings = 1

\* Whether the conversion of some handler configuration fails.
ConversionFails ==
    \E h \in DOMAIN conf :
        \/ ~conf[h].config.ok
        \/ \E p \in DOMAIN conf[h].subdirs : ~conf[h].subdirs[p].config.ok

\* C15: if the conversion of a host's or a sub-directory's handler
\* configuration fails, the construction yields the error and nothing else:
\* no router, no alias table, no default host.
C15_FailureAborts ==
    (dispatcher # None /\ ConversionFails) => dispatcher = Some([err |-> TRUE])

\* h is met first and is registered, then the conversion for g fails.
C15_Witness ==
    /\ dispatcher = Some([err |-> TRUE])
    /\ Unwrap(yielded).order = <<HostH, HostG>>
    /\ conf[HostH].config.ok
    /\ \A p \in DOMAIN conf[HostH].subdirs : conf[HostH].subdirs[p].config.ok
    /\ ~conf[HostG].config.ok

(***************************************************************************)
(* MatchRules' life: rules from the configuration, asked about a host and  *)
(* a path.                                                                 *)
(***************************************************************************)
MaxRules == 3

\* Patterns with and without the host h, for "/" and "/a", exact and prefix.
Matchers ==
    {HostPathMatcher(host, path, exact) :
        host \in {<<>>, HostH}, path \in {<<>>, <<<<97>>>>}, exact \in BOOLEAN}

RECURSIVE MatcherLists(_)
MatcherLists(n) ==
    IF n = 0 THEN {<<>>}
    ELSE LET shorter == MatcherLists(n - 1)
         IN shorter \cup {Append(l, m) : l \in {k \in shorter : Len(k) = n - 1},
                                          m \in Matchers}

\* Every MatchRules of at most MaxRules rules.
RuleSets ==
    UNION {{[include |-> include, exclude |-> exclude] :
               exclude \in MatcherLists(MaxRules - Len(include))} :
           include \in MatcherLists(MaxRules)}

AskedHosts == {<<>>, HostH, HostG}
AskedPaths == {<<>>, <<<<97>>>>, <<<<97>>, <<97>>>>, <<<<97, 98>>>>}

MRInit ==
    /\ TrieInit
    /\ conf = None
    /\ yielded = None
    /\ dispatcher = None
    /\ request = None
    /\ outcome = None
    /\ rules \in {Some(r) : r \in RuleSets}
    /\ asked = None
    /\ answer = None
    /\ tasks = <<>>

\* rules.matches(host, path, force_prefix)
Matches ==
    /\ rules # None
    /\ asked = None
    /\ \E host \in AskedHosts, path \in AskedPaths, force_prefix \in BOOLEAN :
          /\ asked' = Some([host |-> host, path |-> path, force_prefix |-> force_prefix])
          /\ answer' = Some(matches(Unwrap(rules), host, path, force_prefix))
    /\ UNCHANGED rules
    /\ UNCHANGED <<trieVars, vhVars, tasks>>

MRNext == Matches

SpecMR == MRInit /\ [][MRNext]_vars

Answered == answer # None
TheRules == Unwrap(rules)
TheAsked == Unwrap(asked)
TheAnswer == Unwrap(answer)

\* C16: rules without include and exclude match every host and path: the
\* result has the prefix flag, the exact flag exactly for the empty path
\* and the fallback flag exactly for a non-empty host.
C16_EmptyRulesMatchAll ==
    (Answered /\ TheRules.include = <<>> /\ TheRules.exclude = <<>>) =>
        /\ TheAnswer # EMPTY
        /\ TheAnswer.prefix
        /\ TheAnswer.exact <=> (TheAsked.path = <<>>)
        /\ TheAnswer.fallback <=> (TheAsked.host # <<>>)

\* Empty rules asked about the host h and the path "/a": a fallback prefix
\* match.
C16_Witness ==
    /\ Answered
    /\ TheRules = [include |-> <<>>, exclude |-> <<>>]
    /\ TheAsked.host = HostH
    /\ TheAsked.path = <<<<97>>>>
    /\ TheAnswer = [exact |-> FALSE, prefix |-> TRUE, fallback |-> TRUE]

\* How the i-th pattern of a list matches what was asked.
MatchOf(list, i) ==
    matcher_matches(list[i], TheAsked.host, TheAsked.path, TheAsked.force_prefix)

\* The patterns of a list that match what was asked.
MatchingRules(list) == {i \in DOMAIN list : any(MatchOf(list, i))}

\* Whether pattern a is at least as specific as pattern b.
AtLeastAsSpecific(a, b) ==
    LET ka == specificity(a)
        kb == specificity(b)
    IN \/ ka[1] > kb[1]
       \/ ka[1] = kb[1] /\ ka[2] > kb[2]
       \/ ka[1] = kb[1] /\ ka[2] = kb[2] /\ ka[3] >= kb[3]

\* The most specific of the matching patterns of a list.
BestRules(list) ==
    {i \in MatchingRules(list) :
        \A j \in MatchingRules(list) : AtLeastAsSpecific(list[i], list[j])}

\* Whether a matching exclude is at least as specific as every matching
\* include.
Excluded ==
    \E e \in BestRules(TheRules.exclude) :
        \A i \in MatchingRules(TheRules.include) :
            AtLeastAsSpecific(TheRules.exclude[e], TheRules.include[i])

\* C17: with at least one rule, the result is empty if a matching exclude
\* is at least as specific as the best matching include or no include
\* matches; otherwise it is the result of a best matching include.
C17_ExcludeBySpecificity ==
    (Answered /\ Len(TheRules.include) + Len(TheRules.exclude) > 0) =>
        IF Excluded \/ MatchingRules(TheRules.include) = {}
        THEN TheAnswer = EMPTY
        ELSE \E i \in BestRules(TheRules.include) : TheAnswer = MatchOf(TheRules.include, i)

\* "h/*" is included and "h/a" excluded; for the host h the path "/a" is
\* excluded, as the exclude is the more specific one.
C17_Witness ==
    /\ Answered
    /\ TheRules.include = <<HostPathMatcher(HostH, <<>>, FALSE)>>
    /\ TheRules.exclude = <<HostPathMatcher(HostH, <<<<97>>>>, TRUE)>>
    /\ TheAsked.host = HostH
    /\ TheAsked.path = <<<<97>>>>
    /\ MatchingRules(TheRules.include) = {1}
    /\ TheAnswer = EMPTY

\* C18: with at least one rule, the result is non-empty only if some
\* include pattern matches; rules that only exclude never apply.
C18_OnlyIncludesApply ==
    (Answered /\ Len(TheRules.include) + Len(TheRules.exclude) > 0) =>
        /\ TheAnswer # EMPTY => MatchingRules(TheRules.include) # {}
        /\ TheRules.include = <<>> => TheAnswer = EMPTY

\* Rules that only exclude "h/a", asked about the host g, which the pattern
\* does not match: the result is empty.
C18_Witness ==
    /\ Answered
    /\ TheRules = [include |-> <<>>, exclude |-> <<HostPathMatcher(HostH, <<<<97>>>>, TRUE)>>]
    /\ TheAsked.host = HostG
    /\ MatchingRules(TheRules.exclude) = {}
    /\ TheAnswer = EMPTY

(***************************************************************************)
(* Requests in flight together: each runs request_filter on the dispatcher *)
(* they share, in steps that interleave freely.                            *)
(***************************************************************************)
MaxRequests == 2

\* h with the stripping sub-directory "/a/", the default host or not.
ConcConfs ==
    {(HostH :> VirtualHostCombined(HostH, <<HostX>>, default,
                                   (SubdirA :> SubDirCombined(HostH, SubdirA, TRUE, TRUE)),
                                   TRUE)) : default \in BOOLEAN}

ConcSessions ==
    {Session(Some(host), Uri(None, path, query)) :
        host \in {HostH, HostX, HostU},
        path \in {<<47, 97, 47, 97, 98>>, <<47, 97, 98>>},
        query \in {None, Some(<<97, 63>>)}}

\* A request as it arrives: its session, and for reference the session as
\* received.
Task(session) ==
    [pc |-> "start", session |-> session, received |-> session,
     selected |-> None, outcome |-> None]

\* A rewrite that lands in the session of every request in flight.
set_uri_everywhere(ts, t, uri) ==
    [i \in DOMAIN ts |-> [ts[i] EXCEPT !.session.uri = uri]]

\* `session.req_header_mut().set_uri(uri)`: the request's own header.
set_uri(ts, t, uri) == [ts EXCEPT ![t].session.uri = uri]

ConcInit ==
    /\ TrieInit
    /\ conf \in ConcConfs
    /\ yielded = None
    /\ dispatcher = None
    /\ request = None
    /\ outcome = None
    /\ rules = None
    /\ asked = None
    /\ answer = None
    /\ tasks = <<>>

\* A request arrives and request_filter is called for it.
Accept ==
    /\ Built
    /\ Len(tasks) < MaxRequests
    /\ \E s \in ConcSessions : tasks' = Append(tasks, Task(s))
    /\ UNCHANGED <<trieVars, vhVars, mrVars>>

\* The host is resolved and the entry looked up in the shared dispatcher.
Select(t) ==
    /\ tasks[t].pc = "start"
    /\ tasks' = [tasks EXCEPT ![t].pc = "selected",
                              ![t].selected =
                                  Some(select_handler(TheDispatcher, tasks[t].session))]
    /\ UNCHANGED <<trieVars, vhVars, mrVars>>

\* `if let Some(new_path) = new_path { header.set_uri(..) }`
Rewrite(t) ==
    /\ tasks[t].pc = "selected"
    /\ IsSome(Unwrap(tasks[t].selected))
    /\ IsSome(Unwrap(Unwrap(tasks[t].selected)).new_path)
    /\ tasks' = set_uri([tasks EXCEPT ![t].pc = "rewritten"], t,
                        set_uri_path(tasks[t].session.uri,
                                     Unwrap(Unwrap(Unwrap(tasks[t].selected)).new_path)))
    /\ UNCHANGED <<trieVars, vhVars, mrVars>>

\* `handler.request_filter(session, ctx).await`
Invoke(t) ==
    /\ IsSome(tasks[t].selected)
    /\ IsSome(Unwrap(tasks[t].selected))
    /\ \/ tasks[t].pc = "rewritten"
       \/ tasks[t].pc = "selected" /\ ~IsSome(Unwrap(Unwrap(tasks[t].selected)).new_path)
    /\ LET handler == Unwrap(Unwrap(tasks[t].selected)).handler
       IN tasks' = [tasks EXCEPT ![t].pc = "done",
                                 ![t].outcome = Some([invoked |-> <<handler.id>>,
                                                      uri |-> tasks[t].session.uri,
                                                      result |-> handler.result])]
    /\ UNCHANGED <<trieVars, vhVars, mrVars>>

\* `Ok(RequestFilterResult::Unhandled)`
ReturnUnhandled(t) ==
    /\ tasks[t].pc = "selected"
    /\ ~IsSome(Unwrap(tasks[t].selected))
    /\ tasks' = [tasks EXCEPT ![t].pc = "done",
                              ![t].outcome = Some([invoked |-> <<>>,
                                                   uri |-> tasks[t].session.uri,
                                                   result |-> "Unhandled"])]
    /\ UNCHANGED <<trieVars, vhVars, mrVars>>

ConcNext ==
    \/ TryFrom
    \/ Accept
    \/ \E t \in DOMAIN tasks : Select(t)
    \/ \E t \in DOMAIN tasks : Rewrite(t)
    \/ \E t \in DOMAIN tasks : Invoke(t)
    \/ \E t \in DOMAIN tasks : ReturnUnhandled(t)

SpecConc == ConcInit /\ [][ConcNext]_vars

\* C19: while requests are handled in any interleaving, the dispatcher is
\* what the build made of the configuration; a request's session is as
\* received until its own rewrite, and a finished request saw the handler,
\* the URI and the result it yields when handled alone.
C19_ReadOnlySharing ==
    Built =>
        /\ dispatcher = Some(try_from(conf, Unwrap(yielded).order, Unwrap(yielded).suborder))
        /\ \A t \in DOMAIN tasks :
              /\ tasks[t].session.host = tasks[t].received.host
              /\ tasks[t].pc \in {"start", "selected"} =>
                    tasks[t].session = tasks[t].received
              /\ tasks[t].pc = "selected" =>
                    Unwrap(tasks[t].selected) = select_handler(TheDispatcher, tasks[t].received)
              /\ tasks[t].pc = "done" =>
                    Unwrap(tasks[t].outcome) = request_filter(TheDispatcher, tasks[t].received)

\* Two requests in flight: the first has had its path rewritten from
\* "/a/ab" to "/ab" while the second, for "/ab?a?", has not been looked at.
C19_Witness ==
    /\ Built
    /\ Len(tasks) = 2
    /\ tasks[1].pc = "rewritten"
    /\ tasks[1].received.uri.path = <<47, 97, 47, 97, 98>>
    /\ tasks[1].session.uri.path = <<47, 97, 98>>
    /\ tasks[2].pc = "start"
    /\ tasks[2].session.uri = Uri(None, <<47, 97, 98>>, Some(<<97, 63>>))

(***************************************************************************)
(* The builder's counters.                                                 *)
(***************************************************************************)
\* C20: after any pushes of normalized labels, splits and overwrites among
\* them, the arrays that build() produces have the lengths of the builder's
\* node, label and value counters, so its three assertions hold; and the
\* label counter is never below zero, also where a split has taken one off
\* before the rest of the label is added.
C20_CountersMatchArrays ==
    /\ builder.nodes >= 1 /\ builder.labels >= 0 /\ builder.values >= 0
    /\ \A label \in Labels :
          find_insertion_point(builder.root, builder.nodes, builder.labels, label).labels >= 0
    /\ build(builder).asserts
    /\ trie # None =>
          /\ Unwrap(trie).asserts
          /\ Len(Unwrap(trie).trie.nodes) = builder.nodes
          /\ Len(Unwrap(trie).trie.labels) = builder.labels
          /\ Len(Unwrap(trie).trie.values) = builder.values

\* "a/ab" was pushed, then "a/a", which split the node, then "a/a" again,
\* which overwrote the value: the root and three nodes, four label bytes
\* and two values.
C20_Witness ==
    /\ trie # None
    /\ Len(pushed) = 3
    /\ pushed[1].label = <<97, 47, 97, 98>>
    /\ pushed[2].label = <<97, 47, 97>>
    /\ pushed[3].label = <<97, 47, 97>>
    /\ pushRet = Some(TRUE)
    /\ builder.nodes = 4 /\ builder.labels = 4 /\ builder.values = 2
    /\ Len(Unwrap(trie).trie.labels) = 4

(***************************************************************************)
(* The shape of the builder's tree and of the built trie.                  *)
(***************************************************************************)
\* The bytes of a label before its first separator.
FirstSegment(label) ==
    LET seps == {k \in DOMAIN label : label[k] = SEPARATOR}
    IN IF seps = {} THEN label
       ELSE SubSeq(label, 1, (CHOOSE k \in seps : \A m \in seps : k <= m) - 1)

\* Whether no two of the labels, given by position, start with the same
\* segment.
DistinctFirstSegments(labels) ==
    \A i, j \in DOMAIN labels :
        i # j => FirstSegment(labels[i]) # FirstSegment(labels[j])

RECURSIVE SiblingsDiffer(_)
SiblingsDiffer(node) ==
    /\ DistinctFirstSegments([i \in DOMAIN node.children |-> node.children[i].label])
    /\ \A i \in DOMAIN node.children : SiblingsDiffer(node.children[i])

TheTrie == Unwrap(trie).trie

\* The label of the node at an index of the built trie.
LabelAt(index) ==
    Slice(TheTrie.labels, TheTrie.nodes[index + 1].label.start,
          TheTrie.nodes[index + 1].label.end)

\* The indices in the children range of the node at an index.
ChildrenAt(index) ==
    {c \in 0..(Len(TheTrie.nodes) + 1) :
        /\ TheTrie.nodes[index + 1].children.start <= c
        /\ c < TheTrie.nodes[index + 1].children.end}

NodeIndices == 0..(Len(TheTrie.nodes) - 1)

\* C21: after every push no two children of a builder node have labels that
\* start with the same segment, and no two children of a node of the built
\* trie do.
C21_SiblingsDiffer ==
    /\ SiblingsDiffer(builder.root)
    /\ trie # None =>
          \A n \in NodeIndices :
              \A c, d \in ChildrenAt(n) \cap NodeIndices :
                  c # d => FirstSegment(LabelAt(c)) # FirstSegment(LabelAt(d))

\* "a/ab" was pushed and then "a/a", which split the node: the root has one
\* child "a", and its children are "ab" and "a".
C21_Witness ==
    /\ trie # None
    /\ Len(pushed) = 2
    /\ pushed[1].label = <<97, 47, 97, 98>>
    /\ pushed[2].label = <<97, 47, 97>>
    /\ Len(builder.root.children) = 1
    /\ builder.root.children[1].label = <<97>>
    /\ Len(builder.root.children[1].children) = 2
    /\ builder.root.children[1].children[1].label = <<97, 98>>
    /\ builder.root.children[1].children[2].label = <<97>>

(***************************************************************************)
(* common_prefix_length on any two byte strings.                           *)
(***************************************************************************)
MaxLabelLen == 4

\* The bytes '/', 'a' and 'b'.
LabelBytes == {SEPARATOR, 97, 98}

RECURSIVE ByteStrings(_)
ByteStrings(n) ==
    IF n = 0 THEN {<<>>}
    ELSE LET shorter == ByteStrings(n - 1)
         IN shorter \cup {Append(s, x) : s \in {t \in shorter : Len(t) = n - 1},
                                          x \in LabelBytes}

LCPInit ==
    /\ builder = TrieBuilder_new
    /\ pushed = <<>>
    /\ pushRet = None
    /\ trie = None
    /\ lookupKey = None
    /\ lookupResult = None
    /\ lcpArgs \in {Some([a |-> a, b |-> b]) :
                       a \in ByteStrings(MaxLabelLen), b \in ByteStrings(MaxLabelLen)}
    /\ lcpResult = None
    /\ conf = None
    /\ yielded = None
    /\ dispatcher = None
    /\ request = None
    /\ outcome = None
    /\ rules = None
    /\ asked = None
    /\ answer = None
    /\ tasks = <<>>

\* common_prefix_length(a, b)
CommonPrefixLength ==
    /\ lcpArgs # None
    /\ lcpResult = None
    /\ lcpResult' = Some(common_prefix_length(Unwrap(lcpArgs).a, Unwrap(lcpArgs).b))
    /\ UNCHANGED <<builder, pushed, pushRet, trie, lookupKey, lookupResult, lcpArgs>>
    /\ UNCHANGED <<vhVars, mrVars, tasks>>

LCPNext == CommonPrefixLength

SpecLCP == LCPInit /\ [][LCPNext]_vars

\* Whether position n (the byte after the first n) is a boundary of label:
\* its end or a separator.
IsBoundary(label, n) == n = Len(label) \/ (n < Len(label) /\ label[n + 1] = SEPARATOR)

\* The lengths n > 0 of the prefixes a and b have in common that end at a
\* boundary in both.
CommonBoundaries(a, b) ==
    {n \in 1..Min(Len(a), Len(b)) :
        /\ SubSeq(a, 1, n) = SubSeq(b, 1, n)
        /\ IsBoundary(a, n)
        /\ IsBoundary(b, n)}

\* C22: common_prefix_length(a, b) is the largest n such that a and b agree
\* on their first n bytes and position n is a boundary in both, and 0 when
\* there is no such n above 0.
C22_LongestBoundaryPrefix ==
    lcpResult # None =>
        LET a == Unwrap(lcpArgs).a
            b == Unwrap(lcpArgs).b
            n == Unwrap(lcpResult)
        IN IF CommonBoundaries(a, b) = {} THEN n = 0
           ELSE n \in CommonBoundaries(a, b) /\ \A m \in CommonBoundaries(a, b) : m <= n

\* "a/b" and "a/ba" agree on three bytes, but only the first segment ends at
\* a boundary in both: the length is 1.
C22_Witness ==
    /\ lcpResult = Some(1)
    /\ Unwrap(lcpArgs).a = <<97, 47, 98>>
    /\ Unwrap(lcpArgs).b = <<97, 47, 98, 97>>

\* Whether a is before b in the lexicographic order of byte strings.
LexLess(a, b) ==
    \E k \in 1..(Len(b)) :
        /\ k <= Len(a) + 1
        /\ SubSeq(a, 1, k - 1) = SubSeq(b, 1, k - 1)
        /\ k = Len(a) + 1 \/ a[k] < b[k]

\* The nodes whose children range holds an index.
ParentsOf(index) == {n \in NodeIndices : index \in ChildrenAt(n)}

\* C23: in the built trie the root is at index 0 and is no node's child;
\* each children range is within the nodes, and its nodes are in ascending
\* lexicographic order of their labels; the ranges of two nodes share no
\* index; every other node is in exactly one range.
C23_TrieLayout ==
    trie # None =>
        /\ Len(TheTrie.nodes) >= 1
        /\ LabelAt(0) = builder.root.label
        /\ IsSome(TheTrie.nodes[1].value) <=> IsSome(builder.root.value)
        /\ ParentsOf(0) = {}
        /\ \A n \in NodeIndices :
              /\ 0 <= TheTrie.nodes[n + 1].children.start
              /\ TheTrie.nodes[n + 1].children.start <= TheTrie.nodes[n + 1].children.end
              /\ TheTrie.nodes[n + 1].children.end <= Len(TheTrie.nodes)
              /\ \A c, d \in ChildrenAt(n) : c < d => LexLess(LabelAt(c), LabelAt(d))
        /\ \A n, m \in NodeIndices : n # m => ChildrenAt(n) \cap ChildrenAt(m) = {}
        /\ \A c \in NodeIndices \ {0} : Cardinality(ParentsOf(c)) = 1

\* "ab" was pushed, then "a/ab", then "a/a": the root's children are stored
\* as "a" and "ab" at 1 and 2, the children of "a" as "a" and "ab" at 3 and 4.
C23_Witness ==
    /\ trie # None
    /\ Len(pushed) = 3
    /\ pushed[1].label = <<97, 98>>
    /\ pushed[2].label = <<97, 47, 97, 98>>
    /\ pushed[3].label = <<97, 47, 97>>
    /\ ChildrenAt(0) = {1, 2}
    /\ LabelAt(1) = <<97>> /\ LabelAt(2) = <<97, 98>>
    /\ ChildrenAt(1) = {3, 4}
    /\ LabelAt(3) = <<97>> /\ LabelAt(4) = <<97, 98>>
    /\ ChildrenAt(2) = {}

(***************************************************************************)
(* Pushes in another order, and what a push leaves alone.                  *)
(***************************************************************************)
\* The builder after the pushes of a sequence, from a new builder.
RECURSIVE PushAll(_)
PushAll(pushes) ==
    IF pushes = <<>> THEN TrieBuilder_new
    ELSE push(PushAll(SubSeq(pushes, 1, Len(pushes) - 1)),
              pushes[Len(pushes)].label, pushes[Len(pushes)].value).builder

\* The pushes made, in the order a permutation of their positions gives.
Reordered(perm) == [i \in DOMAIN pushed |-> pushed[perm[i]]]

DistinctLabels == \A i, j \in DOMAIN pushed : i # j => pushed[i].label # pushed[j].label

\* C24: when the labels pushed are pairwise distinct, the same pushes in any
\* other order build the same nodes, labels and values, and so the same
\* result of every lookup.
C24_OrderIndependent ==
    DistinctLabels =>
        \A perm \in Orders(DOMAIN pushed) :
            LET other == build(PushAll(Reordered(perm))).trie
            IN /\ other = build(builder).trie
               /\ trie # None => other = TheTrie
               /\ \A key \in Keys : lookup(other, key) = lookup(build(builder).trie, key)

\* "a/ab", "ab" and "a/a" were pushed; pushed in the reverse order the
\* builder's tree has its children in another order, and the trie built is
\* the same.
C24_Witness ==
    /\ trie # None
    /\ Len(pushed) = 3
    /\ pushed[1].label = <<97, 47, 97, 98>>
    /\ pushed[2].label = <<97, 98>>
    /\ pushed[3].label = <<97, 47, 97>>
    /\ PushAll(Reordered(<<3, 2, 1>>)).root # builder.root
    /\ build(PushAll(Reordered(<<3, 2, 1>>))).trie = TheTrie

\* Whether every node below this one has a value or at least two children.
RECURSIVE NoBareBranch(_)
NoBareBranch(node) ==
    \A i \in DOMAIN node.children :
        LET child == node.children[i]
        IN /\ ~IsSome(child.value) => Len(child.children) >= 2
           /\ Len(child.children) = 0 => IsSome(child.value)
           /\ NoBareBranch(child)

\* C25: after every push, every builder node but the root that has no value
\* has at least two children, and every leaf has a value.
C25_NoBareBranch == NoBareBranch(builder.root)

\* "a/ab" was pushed and then "a/a": the split made a node "a" without a
\* value, which has the two children "ab" and "a".
C25_Witness ==
    /\ Len(pushed) = 2
    /\ pushed[1].label = <<97, 47, 97, 98>>
    /\ pushed[2].label = <<97, 47, 97>>
    /\ Len(builder.root.children) = 1
    /\ builder.root.children[1].value = None
    /\ Len(builder.root.children[1].children) = 2

\* The result of a lookup in the trie a builder builds.
LookupIn(b, key) == lookup(build(b).trie, key).result

\* C26: a push of a label changes the result of the lookup of a key only if
\* the label is a whole-segment prefix of the key; the values of all other
\* labels pushed before stay as they were, also when a node is split.
C26_PushFrame ==
    [][Len(pushed') = Len(pushed) + 1 =>
          \A key \in Keys :
              LookupIn(builder', key) # LookupIn(builder, key) =>
                  IsSegmentPrefix(SegmentsOf(pushed'[Len(pushed')].label), key)]_vars

\* "a/ab" was pushed with the value 1 and then "a/a", which split its node:
\* the key "a/ab" still finds the value 1, the key "a/a" the value 2.
C26_Witness ==
    /\ Len(pushed) = 2
    /\ pushed[1].label = <<97, 47, 97, 98>>
    /\ pushed[2].label = <<97, 47, 97>>
    /\ builder.root.children[1].label = <<97>>
    /\ LookupIn(builder, <<<<97>>, <<97, 98>>>>) = Some(<<1, 2>>)
    /\ LookupIn(builder, <<<<97>>, <<97>>>>) = Some(<<2, 2>>)

(***************************************************************************)
(* Requests without a host.                                                *)
(***************************************************************************)
NoHostResolved ==
    RequestDone /\ ~UsableHeader /\ ~IsSome(TheRequest.uri.authority)

\* The dispatcher with the name made an alias of u, a host that has no
\* entry.  try_from only ever makes aliases of hosts it registers, and the
\* own entry of a host holds every path, so no dispatcher it builds has an
\* alias whose host finds no match; this one serves to follow that branch.
WithDanglingAlias(name) == [TheDispatcher EXCEPT !.aliases = (name :> HostU)]

\* C27: a request without a usable Host header and without an authority in
\* its target is given to the default host's entry for its path if a host
\* is marked as default, and is otherwise answered Unhandled with no
\* handler invoked; and where the host an alias names finds no match, the
\* selection is that of the default host.
C27_NoHostFallsBack ==
    /\ NoHostResolved =>
          IF DefaultHosts # {}
          THEN /\ IsSome(TheOutcome.invoked)
               /\ Invoked[1] \in DefaultHosts
               /\ TheDispatcher.default = Some(Invoked[1])
               /\ Invoked[2] = EntryFor(Invoked[1], TheRequest.uri.path)
          ELSE /\ TheOutcome.invoked = None
               /\ TheOutcome.result = "Unhandled"
               /\ TheOutcome.uri = TheRequest.uri
    /\ (RequestDone /\ IsSome(ResolvedHost) /\ Unwrap(ResolvedHost) \notin DOMAIN conf) =>
          LET dangling == WithDanglingAlias(Unwrap(ResolvedHost))
          IN /\ best_match(dangling, HostU, TheRequest.uri.path) = None
             /\ select_handler(dangling, TheRequest)
                    = default_match(TheDispatcher, TheRequest.uri.path)

\* A request for "/a" with neither a Host header nor an authority, where h
\* is the default host: it is given to h's sub-directory "/a/".
C27_Witness ==
    /\ WasInvoked
    /\ TheRequest.host = None
    /\ TheRequest.uri.authority = None
    /\ TheRequest.uri.path = <<47, 97>>
    /\ DefaultHosts = {HostH}
    /\ Invoked = <<HostH, SubdirA>>

====
